---- MODULE Spec2Model ----
(***************************************************************************)
(* Model of the weather ingestion pipeline of data_ingestion.py: ingest()  *)
(* and the stage functions it drives (get_bbox, get_grid_points,           *)
(* get_weather, parse_responses, responses_to_json, upload_to_snowflake).  *)
(* The external services (geocoder, weather provider, warehouse, file      *)
(* system) are the environment: each call either raises or returns one of  *)
(* a small set of responses.                                               *)
(***************************************************************************)
EXTENDS Integers, Sequences, FiniteSets, TLC

\* ---------------------------------------------------------------- bounds
\* longest list of locations handed to ingest
MaxLocs == 2
\* largest number of grid cells a bounding box resolves to
MaxPoints == 2

\* ------------------------------------------------------ program constants
\* get_weather: params["past_hours"] / params["forecast_hours"] per mode
HistoryPastHours == 24
HistoryForecastHours == 0
ForecastPastHours == 0
ForecastForecastHours == 1
\* get_bbox: "limit": 1
GeoLimit == 1

VARIABLES
    mode,        \* "history" | "forecast"
    dry_run,     \* BOOLEAN
    locations,   \* the list ingest iterates
    pc,          \* position of ingest
    i,           \* index of the current location of the for loop
    conn,        \* "none" (None) | "open" | "closed"
    err,         \* the exception in flight (NoError when none)
    resp,        \* local of get_bbox: the geocoder's response
    bbox,        \* local of ingest: result of get_bbox
    latitudes,   \* local of ingest
    longitudes,  \* local of ingest
    responses,   \* local of ingest: result of get_weather
    dataframes,  \* local of ingest: result of parse_responses
    json_path,   \* local of ingest: result of responses_to_json
    files,       \* the temp directory: path -> lines
    clock,       \* wall clock in seconds (datetime.now(timezone.utc))
    stdout,      \* what ingest printed
    log          \* the calls made so far, in order

vars == <<mode, dry_run, locations, pc, i, conn, err, resp, bbox, latitudes,
          longitudes, responses, dataframes, json_path, files, clock,
          stdout, log>>

\* ------------------------------------------------------------- locations
\* A location is a (city, state) tuple or a free-form string; strings are
\* sequences of characters.
TupleLocation == [tuple |-> TRUE, parts |-> << <<"N", " ", "Y">>, <<"N", "Y">> >>]
StringLocation == [tuple |-> FALSE, parts |-> << <<"D", "B", ",", " ", "U">> >>]
Locations == {TupleLocation, StringLocation}

LocationLists == UNION {[1..n -> Locations] : n \in 0..MaxLocs}

\* label = location if isinstance(location, str) else f"{location[0]}, {location[1]}"
Label(location) ==
    IF location.tuple
    THEN location.parts[1] \o <<",", " ">> \o location.parts[2]
    ELSE location.parts[1]

\* ------------------------------------------------------------ exceptions
NoError == [type |-> "none", op |-> "none", loc |-> 0]
Raise(type, op, loc) == [type |-> type, op |-> op, loc |-> loc]

Event(op, loc, exc) == [op |-> op, loc |-> loc, exc |-> exc]

\* for location in locations: the next position of the loop at index k
LoopHead(k) == IF k <= Len(locations) THEN "get_bbox" ELSE "finally"

\* ---------------------------------------------------------------- get_bbox
\* The request parameters get_bbox sends to the geocoder.
BboxParams(location) ==
    IF location.tuple
    THEN [city |-> location.parts[1], state |-> location.parts[2],
          format |-> "json", limit |-> GeoLimit]
    ELSE [q |-> location.parts[1], format |-> "json", limit |-> GeoLimit]

\* Bounding boxes a candidate may carry, as (south, north, west, east): one
\* holding no grid cell and one holding MaxPoints of them.
GeoBoxes == { <<1, 1, 1, 1>>, <<0, 2 * (MaxPoints - 1), 0, 0>> }

GeoCandidates == {[boundingbox |-> b] : b \in GeoBoxes} \cup {[display_name |-> "x"]}

\* The geocoder: an array of at most params.limit candidates.
GeoLookup(params) ==
    { <<>> } \cup { <<c>> : c \in GeoCandidates }
    \cup (IF params.limit >= 2
          THEN { <<c, d>> : c \in GeoCandidates, d \in GeoCandidates }
          ELSE {})

\* result = resp.json()[0]; bbox = result["boundingbox"]; return {...}
\* The exception get_bbox raises on the decoded response, "none" when it returns.
BboxFault(json) ==
    IF Len(json) = 0 THEN "IndexError"
    ELSE IF "boundingbox" \notin DOMAIN json[1] THEN "KeyError"
    ELSE "none"

BboxOf(json) ==
    [south_lat |-> json[1].boundingbox[1],
     north_lat |-> json[1].boundingbox[2],
     west_lon  |-> json[1].boundingbox[3],
     east_lon  |-> json[1].boundingbox[4]]

NoBbox == [south_lat |-> 0, north_lat |-> 0, west_lon |-> 0, east_lon |-> 0]

\* ----------------------------------------------------------- get_grid_points
\* "bounding_box": f"{south_lat},{west_lon},{north_lat},{east_lon}"
GridParams(box) ==
    [bounding_box |-> <<box.south_lat, box.west_lon, box.north_lat, box.east_lon>>,
     models |-> "icon_global", forecast_hours |-> 0]

RECURSIVE Ascending(_)
Ascending(S) ==
    IF S = {} THEN <<>>
    ELSE LET m == CHOOSE x \in S : \A y \in S : x <= y
         IN <<m>> \o Ascending(S \ {m})

\* The provider's grid: cells sit on the even coordinates; the response has
\* one entry per cell inside south,west,north,east.
GridCells(params) ==
    LET b == params.bounding_box
        lats == Ascending({x \in b[1]..b[3] : x % 2 = 0})
        lons == Ascending({x \in b[2]..b[4] : x % 2 = 0})
    IN [k \in 1..(Len(lats) * Len(lons)) |->
            [Latitude  |-> lats[((k - 1) \div Len(lons)) + 1],
             Longitude |-> lons[((k - 1) % Len(lons)) + 1]]]

\* ------------------------------------------------------------- get_weather
\* get_weather with the two windows exchanged
WeatherParamsSwapped(lats, lons, m) ==
    [latitude |-> lats, longitude |-> lons,
     past_hours |-> IF m # "history" THEN HistoryPastHours ELSE ForecastPastHours,
     forecast_hours |-> IF m # "history" THEN HistoryForecastHours
                        ELSE ForecastForecastHours]

WeatherParams(lats, lons, m) ==
    [latitude |-> lats, longitude |-> lons,
     past_hours |-> IF m = "history" THEN HistoryPastHours ELSE ForecastPastHours,
     forecast_hours |-> IF m = "history" THEN HistoryForecastHours
                        ELSE ForecastForecastHours]

\* The shapes of one point's hourly block: well formed, temperature array one
\* element short, and an empty window.
Shapes == {"ok", "short_temperature", "empty_window"}

Series(n) == [k \in 1..n |-> k]

\* The provider's hourly block for point k of the request, at its time now.
HourlyBlock(params, k, now, shape) ==
    LET hours == params.past_hours + params.forecast_hours
        start == now - params.past_hours * 3600
        n     == IF shape = "empty_window" THEN 0 ELSE hours
        short == IF shape = "short_temperature" /\ n > 0 THEN n - 1 ELSE n
    IN [Latitude  |-> params.latitude[k],
        Longitude |-> params.longitude[k],
        Time      |-> start,
        TimeEnd   |-> start + n * 3600,
        Interval  |-> 3600,
        Variables |-> <<Series(short), Series(n), Series(n), Series(n)>>]

\* One block per submitted point, in the order submitted.
WeatherApi(params, now) ==
    { [k \in 1..Len(params.latitude) |-> HourlyBlock(params, k, now, shapes[k])] :
        shapes \in [1..Len(params.latitude) -> Shapes] }

\* --------------------------------------------------------- parse_responses
\* pd.date_range(start, end, freq, inclusive="left")
DateRange(start, end, freq) ==
    LET n == IF end > start THEN ((end - start - 1) \div freq) + 1 ELSE 0
    IN [k \in 1..n |-> start + (k - 1) * freq]

\* pd.DataFrame(data=hourly_data) raises ValueError when the arrays of the
\* dict do not all have the same length.
Misaligned(response) ==
    \E v \in 1..4 :
        Len(response.Variables[v])
            # Len(DateRange(response.Time, response.TimeEnd, response.Interval))

Frame(response, label) ==
    LET ts == DateRange(response.Time, response.TimeEnd, response.Interval)
    IN [k \in 1..Len(ts) |->
            [timestamp |-> ts[k],
             location  |-> label,
             latitude  |-> response.Latitude,
             longitude |-> response.Longitude,
             temperature_2m |-> response.Variables[1][k],
             is_day |-> response.Variables[2][k],
             precipitation_probability |-> response.Variables[3][k],
             precipitation |-> response.Variables[4][k]]]

ParseFault(resps) ==
    IF \E k \in 1..Len(resps) : Misaligned(resps[k]) THEN "ValueError" ELSE "none"

ParseResponses(resps, label) == [k \in 1..Len(resps) |-> Frame(resps[k], label)]

\* ------------------------------------------------------- responses_to_json
\* label.replace(" ", "_").replace(",", "")
SafeLabel(label) ==
    SelectSeq([k \in 1..Len(label) |-> IF label[k] = " " THEN "_" ELSE label[k]],
              LAMBDA c : c # ",")

\* f"{safe_label}_{mode}_{timestamp}.json" in the temp directory
FilePath(label, m, now) == <<SafeLabel(label), m, now>>

\* .astype(str) of a UTC timestamp: date, hour of day, seconds within the hour
TimestampStr(t) == <<t \div 86400, (t % 86400) \div 3600, t % 3600>>

JsonLine(record, m) ==
    [timestamp |-> TimestampStr(record.timestamp),
     location  |-> record.location,
     latitude  |-> record.latitude,
     longitude |-> record.longitude,
     temperature_2m |-> record.temperature_2m,
     is_day |-> record.is_day,
     precipitation_probability |-> record.precipitation_probability,
     precipitation |-> record.precipitation,
     mode |-> m]

RECURSIVE JsonLines(_, _)
JsonLines(frames, m) ==
    IF frames = <<>> THEN <<>>
    ELSE [k \in 1..Len(Head(frames)) |-> JsonLine(Head(frames)[k], m)]
         \o JsonLines(Tail(frames), m)

\* ------------------------------------------------------------------ state
EmptyDir == [p \in {} |-> <<>>]

WriteFile(dir, path, lines) ==
    [p \in DOMAIN dir \cup {path} |-> IF p = path THEN lines ELSE dir[p]]

\* os.remove that leaves the file in place
RemoveNothing(dir, path) == dir

\* os.remove(path)
RemoveFile(dir, path) == [p \in DOMAIN dir \ {path} |-> dir[p]]

Init ==
    /\ mode \in {"history", "forecast"}
    /\ dry_run \in BOOLEAN
    /\ locations \in LocationLists
    /\ pc = "connect"
    /\ i = 1
    /\ conn = "none"
    /\ err = NoError
    /\ resp = [received |-> FALSE, json |-> <<>>]
    /\ bbox = NoBbox
    /\ latitudes = <<>>
    /\ longitudes = <<>>
    /\ responses = <<>>
    /\ dataframes = <<>>
    /\ json_path = <<>>
    /\ files = EmptyDir
    /\ clock = (HistoryPastHours + 1) * 3600
    /\ stdout = <<>>
    /\ log = <<>>

\* an exception that is swallowed, the loop going on
ThrowAndContinue(type, op) ==
    /\ err' = Raise(type, op, i)
    /\ log' = Append(log, Event(op, i, type))
    /\ pc' = LoopHead(i)

\* An exception raised inside the try block of ingest: control moves to the
\* finally clause.
Throw(type, op) ==
    /\ err' = Raise(type, op, i)
    /\ log' = Append(log, Event(op, i, type))
    /\ pc' = "finally"

\* conn = None; if not dry_run: conn = get_snowflake_connection()
Connect ==
    /\ pc = "connect"
    /\ IF dry_run
       THEN /\ pc' = LoopHead(1)
            /\ UNCHANGED <<conn, err, log>>
       ELSE \/ /\ conn' = "open"
               /\ log' = Append(log, Event("connect", 0, "none"))
               /\ pc' = LoopHead(1)
               /\ UNCHANGED err
            \/ /\ err' = Raise("DatabaseError", "connect", 0)
               /\ log' = Append(log, Event("connect", 0, "DatabaseError"))
               /\ pc' = "done"
               /\ UNCHANGED conn
    /\ UNCHANGED <<mode, dry_run, locations, i, resp, bbox, latitudes, longitudes,
                   responses, dataframes, json_path, files, clock, stdout>>

\* bbox = get_bbox(location)
GetBbox ==
    /\ pc = "get_bbox"
    /\ \/ /\ Throw("RequestException", "get_bbox")
          /\ UNCHANGED <<resp, bbox>>
       \/ \E json \in GeoLookup(BboxParams(locations[i])) :
            /\ resp' = [received |-> TRUE, json |-> json]
            /\ IF BboxFault(json) # "none"
               THEN /\ Throw(BboxFault(json), "get_bbox")
                    /\ UNCHANGED bbox
               ELSE /\ bbox' = BboxOf(json)
                    /\ log' = Append(log, Event("get_bbox", i, "none"))
                    /\ pc' = "get_grid_points"
                    /\ UNCHANGED err
    /\ UNCHANGED <<mode, dry_run, locations, i, conn, latitudes, longitudes,
                   responses, dataframes, json_path, files, clock, stdout>>

\* latitudes, longitudes = get_grid_points(bbox), and the location's header
GetGridPoints ==
    /\ pc = "get_grid_points"
    /\ \/ /\ Throw("OpenMeteoRequestsError", "get_grid_points")
          /\ UNCHANGED <<latitudes, longitudes, stdout>>
       \/ LET cells == GridCells(GridParams(bbox))
          IN /\ latitudes' = [k \in 1..Len(cells) |-> cells[k].Latitude]
             /\ longitudes' = [k \in 1..Len(cells) |-> cells[k].Longitude]
             /\ stdout' = Append(stdout,
                    <<"location", Label(locations[i]), mode, bbox, Len(cells)>>)
             /\ log' = Append(log, Event("get_grid_points", i, "none"))
             /\ pc' = "get_weather"
             /\ UNCHANGED err
    /\ UNCHANGED <<mode, dry_run, locations, i, conn, resp, bbox, responses,
                   dataframes, json_path, files, clock>>

\* responses = get_weather(latitudes, longitudes, mode=mode)
GetWeather ==
    /\ pc = "get_weather"
    /\ \/ /\ Throw("OpenMeteoRequestsError", "get_weather")
          /\ UNCHANGED responses
       \/ \E resps \in WeatherApi(WeatherParams(latitudes, longitudes, mode),
                                  (clock \div 3600) * 3600) :
            /\ responses' = resps
            /\ log' = Append(log, Event("get_weather", i, "none"))
            /\ pc' = "parse_responses"
            /\ UNCHANGED err
    /\ UNCHANGED <<mode, dry_run, locations, i, conn, resp, bbox, latitudes,
                   longitudes, dataframes, json_path, files, clock, stdout>>

\* parse_responses that drops a misaligned point instead of raising
NormalizeSkipMisaligned ==
    /\ pc = "parse_responses"
    /\ dataframes' = ParseResponses(SelectSeq(responses, LAMBDA r : ~Misaligned(r)),
                                    Label(locations[i]))
    /\ log' = Append(log, Event("parse_responses", i, "none"))
    /\ pc' = "report_frames"
    /\ UNCHANGED <<mode, dry_run, locations, i, conn, err, resp, bbox, latitudes,
                   longitudes, responses, json_path, files, clock, stdout>>

\* dataframes = parse_responses(responses, label)
Normalize ==
    /\ pc = "parse_responses"
    /\ IF ParseFault(responses) # "none"
       THEN /\ Throw(ParseFault(responses), "parse_responses")
            /\ UNCHANGED dataframes
       ELSE /\ dataframes' = ParseResponses(responses, Label(locations[i]))
            /\ log' = Append(log, Event("parse_responses", i, "none"))
            /\ pc' = "report_frames"
            /\ UNCHANGED err
    /\ UNCHANGED <<mode, dry_run, locations, i, conn, resp, bbox, latitudes,
                   longitudes, responses, json_path, files, clock, stdout>>

\* a report that reads the first frame before looping
ReportFramesFirstFrame ==
    /\ pc = "report_frames"
    /\ IF dataframes = <<>> \/ \E k \in 1..Len(dataframes) : Len(dataframes[k]) = 0
       THEN /\ Throw("IndexError", "report_frames")
            /\ UNCHANGED stdout
       ELSE /\ stdout' = stdout \o
                    [k \in 1..Len(dataframes) |->
                        <<"coordinates", dataframes[k][1].latitude,
                          dataframes[k][1].longitude>>]
            /\ pc' = "responses_to_json"
            /\ UNCHANGED <<err, log>>
    /\ UNCHANGED <<mode, dry_run, locations, i, conn, resp, bbox, latitudes,
                   longitudes, responses, dataframes, json_path, files, clock>>

\* for df in dataframes: lat = df["latitude"].iloc[0]; ...
\* iloc[0] raises IndexError on a frame without rows.
ReportFrames ==
    /\ pc = "report_frames"
    /\ LET empty == {k \in 1..Len(dataframes) : Len(dataframes[k]) = 0}
           shown == IF empty = {} THEN Len(dataframes)
                    ELSE (CHOOSE k \in empty : \A j \in empty : k <= j) - 1
       IN /\ stdout' = stdout \o
                [k \in 1..shown |-> <<"coordinates", dataframes[k][1].latitude,
                                      dataframes[k][1].longitude>>]
          /\ IF empty # {}
             THEN Throw("IndexError", "report_frames")
             ELSE /\ pc' = "responses_to_json"
                  /\ UNCHANGED <<err, log>>
    /\ UNCHANGED <<mode, dry_run, locations, i, conn, resp, bbox, latitudes,
                   longitudes, responses, dataframes, json_path, files, clock>>

\* the load attempted whatever dry_run says
AfterSerializeAlwaysLoad(dry) == "cursor"

\* if not dry_run: upload_to_snowflake(conn, json_path)
AfterSerialize(dry) == IF ~dry THEN "cursor" ELSE "os_remove"

\* json_path = responses_to_json(dataframes, label, mode)
ResponsesToJson ==
    /\ pc = "responses_to_json"
    /\ \E now \in {clock, clock + 1} :
        /\ clock' = now
        /\ \/ /\ Throw("OSError", "responses_to_json")
              /\ UNCHANGED <<json_path, files, stdout>>
           \/ LET path == FilePath(Label(locations[i]), mode, now)
              IN /\ files' = WriteFile(files, path, JsonLines(dataframes, mode))
                 /\ json_path' = path
                 /\ stdout' = Append(stdout, <<"json_written", path>>)
                 /\ log' = Append(log, Event("responses_to_json", i, "none"))
                 /\ pc' = AfterSerialize(dry_run)
                 /\ UNCHANGED err
    /\ UNCHANGED <<mode, dry_run, locations, i, conn, resp, bbox, latitudes,
                   longitudes, responses, dataframes>>

\* upload_to_snowflake: cur = connection.cursor()
OpenCursor ==
    /\ pc = "cursor"
    /\ \/ Throw("DatabaseError", "cursor")
       \/ /\ log' = Append(log, Event("cursor", i, "none"))
          /\ pc' = "put"
          /\ UNCHANGED err
    /\ UNCHANGED <<mode, dry_run, locations, i, conn, resp, bbox, latitudes,
                   longitudes, responses, dataframes, json_path, files, clock,
                   stdout>>

\* upload_to_snowflake: cur.execute("PUT ...") inside try
ExecutePut ==
    /\ pc = "put"
    /\ \/ /\ err' = Raise("ProgrammingError", "PUT", i)
          /\ log' = Append(log, Event("PUT", i, "ProgrammingError"))
          /\ pc' = "cursor_close"
       \/ /\ log' = Append(log, Event("PUT", i, "none"))
          /\ pc' = "copy"
          /\ UNCHANGED err
    /\ UNCHANGED <<mode, dry_run, locations, i, conn, resp, bbox, latitudes,
                   longitudes, responses, dataframes, json_path, files, clock,
                   stdout>>

\* upload_to_snowflake: cur.execute("COPY INTO ...") inside try
ExecuteCopy ==
    /\ pc = "copy"
    /\ \/ /\ err' = Raise("ProgrammingError", "COPY", i)
          /\ log' = Append(log, Event("COPY", i, "ProgrammingError"))
       \/ /\ log' = Append(log, Event("COPY", i, "none"))
          /\ UNCHANGED err
    /\ pc' = "cursor_close"
    /\ UNCHANGED <<mode, dry_run, locations, i, conn, resp, bbox, latitudes,
                   longitudes, responses, dataframes, json_path, files, clock,
                   stdout>>

\* cur.close() reached on the success path only
CloseCursorOnSuccessOnly ==
    /\ pc = "cursor_close"
    /\ IF err = NoError
       THEN /\ log' = Append(log, Event("cursor_close", i, "none"))
            /\ stdout' = Append(stdout, <<"uploaded">>)
            /\ pc' = "os_remove"
       ELSE /\ pc' = "finally"
            /\ UNCHANGED <<log, stdout>>
    /\ UNCHANGED <<mode, dry_run, locations, i, conn, err, resp, bbox, latitudes,
                   longitudes, responses, dataframes, json_path, files, clock>>

\* upload_to_snowflake: finally: cur.close(); then back in ingest,
\* print("Uploaded to Snowflake @%raw_weather") when nothing was raised
CloseCursor ==
    /\ pc = "cursor_close"
    /\ \/ /\ log' = Append(log, Event("cursor_close", i, "none"))
          /\ IF err = NoError
             THEN /\ stdout' = Append(stdout, <<"uploaded">>)
                  /\ pc' = "os_remove"
             ELSE /\ pc' = "finally"
                  /\ UNCHANGED stdout
          /\ UNCHANGED err
       \/ /\ log' = Append(log, Event("cursor_close", i, "DatabaseError"))
          /\ err' = Raise("DatabaseError", "cursor_close", i)
          /\ pc' = "finally"
          /\ UNCHANGED stdout
    /\ UNCHANGED <<mode, dry_run, locations, i, conn, resp, bbox, latitudes,
                   longitudes, responses, dataframes, json_path, files, clock>>

\* os.remove(json_path), the last statement of the loop body
OsRemove ==
    /\ pc = "os_remove"
    /\ \/ /\ Throw("OSError", "os_remove")
          /\ UNCHANGED <<files, i>>
       \/ /\ files' = RemoveFile(files, json_path)
          /\ log' = Append(log, Event("os_remove", i, "none"))
          /\ i' = i + 1
          /\ pc' = LoopHead(i + 1)
          /\ UNCHANGED err
    /\ UNCHANGED <<mode, dry_run, locations, conn, resp, bbox, latitudes,
                   longitudes, responses, dataframes, json_path, clock, stdout>>

\* conn.close() reached on the success path only
FinallyCloseOnSuccess ==
    /\ pc = "finally"
    /\ IF conn # "none" /\ err = NoError
       THEN /\ conn' = "closed"
            /\ log' = Append(log, Event("conn_close", 0, "none"))
       ELSE UNCHANGED <<conn, log>>
    /\ pc' = "done"
    /\ UNCHANGED <<mode, dry_run, locations, i, err, resp, bbox, latitudes,
                   longitudes, responses, dataframes, json_path, files, clock,
                   stdout>>

\* finally: if conn: conn.close()
Finally ==
    /\ pc = "finally"
    /\ IF conn # "none"
       THEN /\ conn' = "closed"
            /\ \/ /\ log' = Append(log, Event("conn_close", 0, "none"))
                  /\ UNCHANGED err
               \/ /\ log' = Append(log, Event("conn_close", 0, "DatabaseError"))
                  /\ err' = Raise("DatabaseError", "conn_close", 0)
       ELSE UNCHANGED <<conn, err, log>>
    /\ pc' = "done"
    /\ UNCHANGED <<mode, dry_run, locations, i, resp, bbox, latitudes, longitudes,
                   responses, dataframes, json_path, files, clock, stdout>>

Next ==
    \/ Connect
    \/ GetBbox
    \/ GetGridPoints
    \/ GetWeather
    \/ Normalize
    \/ ReportFrames
    \/ ResponsesToJson
    \/ OpenCursor
    \/ ExecutePut
    \/ ExecuteCopy
    \/ CloseCursor
    \/ OsRemove
    \/ Finally

Spec == Init /\ [][Next]_vars

TypeOK ==
    /\ pc \in {"connect", "get_bbox", "get_grid_points", "get_weather",
               "parse_responses", "report_frames", "responses_to_json",
               "cursor", "put", "copy", "cursor_close", "os_remove",
               "finally", "done"}
    /\ conn \in {"none", "open", "closed"}
    /\ i \in 1..(Len(locations) + 1)
    /\ Len(latitudes) = Len(longitudes)

\* ======================================================== claim formulas
Count(op) == Cardinality({p \in DOMAIN log : log[p].op = op})

CountAt(op, k) == Cardinality({p \in DOMAIN log : log[p].op = op /\ log[p].loc = k})

Succeeded(op, k) == \E p \in DOMAIN log : log[p] = Event(op, k, "none")

Failed(op, k) ==
    \E p \in DOMAIN log : log[p].op = op /\ log[p].loc = k /\ log[p].exc # "none"

Cleanup == {"cursor_close", "conn_close"}

LoadOps == {"cursor", "PUT", "COPY", "cursor_close"}

InUpload == pc \in {"put", "copy", "cursor_close"}

\* C1: without dry-run the connection is opened at most once and before any
\* stage of any location, nothing is called after its close, and once ingest
\* has ended a connection that was opened has been closed exactly once,
\* whether the run succeeded or a stage raised.
C1_ConnectionClosedOnce ==
    ~dry_run =>
        /\ Count("connect") = (IF pc = "connect" THEN 0 ELSE 1)
        /\ Count("conn_close") <= 1
        /\ \A p \in DOMAIN log :
            /\ log[p].op = "connect" => p = 1
            /\ log[p].op # "connect" => log[1] = Event("connect", 0, "none")
            /\ log[p].op = "conn_close" => p = Len(log)
        /\ conn = "open" <=> (Succeeded("connect", 0) /\ Count("conn_close") = 0)
        /\ pc = "done" =>
            (Succeeded("connect", 0) <=> (Count("conn_close") = 1 /\ conn = "closed"))

\* C1 witness: a run whose PUT raised has ended with the connection closed once
C1_Witness ==
    /\ ~dry_run
    /\ pc = "done"
    /\ Failed("PUT", 1)
    /\ Count("connect") = 1
    /\ Count("conn_close") = 1

\* C2: in dry-run no connection is created, no cursor, PUT, COPY or close is
\* ever called, and a run that ended without error serialized one file per
\* location and removed each of them.
C2_DryRunInvariant ==
    dry_run =>
        /\ conn = "none"
        /\ \A p \in DOMAIN log : log[p].op \notin LoadOps \cup {"connect", "conn_close"}
        /\ \A p \in DOMAIN stdout : stdout[p][1] # "uploaded"
        /\ (pc = "done" /\ err = NoError) =>
            /\ \A k \in 1..Len(locations) :
                /\ CountAt("responses_to_json", k) = 1
                /\ CountAt("os_remove", k) = 1
                /\ \E p, q \in DOMAIN log :
                    /\ p < q
                    /\ log[p] = Event("responses_to_json", k, "none")
                    /\ log[q] = Event("os_remove", k, "none")
            /\ DOMAIN files = {}

\* C2 witness: a dry run over two or more locations has ended without error
C2_Witness ==
    /\ dry_run
    /\ pc = "done"
    /\ err = NoError
    /\ Len(locations) >= 2
    /\ Succeeded("os_remove", Len(locations))

\* C3: once ingest has ended, normally or by an error, no file it wrote
\* still exists.
C3_FileDeletedOnEveryExit == pc = "done" => DOMAIN files = {}

\* C4: per batch the PUT and the COPY are each issued at most once, the COPY
\* only after a PUT that succeeded; a failure of either leaves an exception
\* in flight and the batch unreported; and every cursor that was opened is
\* closed once upload_to_snowflake has been left.
C4_StageThenCopy ==
    \A k \in 1..Len(locations) :
        /\ CountAt("PUT", k) <= 1
        /\ CountAt("COPY", k) <= 1
        /\ \A q \in DOMAIN log :
            (log[q].op = "COPY" /\ log[q].loc = k) =>
                \E p \in 1..(q - 1) : log[p] = Event("PUT", k, "none")
        /\ Failed("PUT", k) => CountAt("COPY", k) = 0
        /\ (Failed("PUT", k) \/ Failed("COPY", k)) =>
            /\ err # NoError
            /\ pc \in {"cursor_close", "finally", "done"}
            /\ Cardinality({p \in DOMAIN stdout : stdout[p][1] = "uploaded"}) = k - 1
        /\ (Succeeded("cursor", k) /\ ~(i = k /\ InUpload)) =>
            CountAt("cursor_close", k) = 1

\* C4 witness: the PUT of the second batch raised and the run has ended
C4_Witness ==
    /\ pc = "done"
    /\ Succeeded("COPY", 1)
    /\ Failed("PUT", 2)
    /\ CountAt("cursor_close", 2) = 1

\* C5: after a call of location k raised, nothing but the cursor's and the
\* connection's close is ever called, so no stage of a later location runs;
\* the run ends with an exception in flight and the connection closed.
C5_ErrorAbortsRun ==
    /\ \A p \in DOMAIN log :
        log[p].exc # "none" =>
            \A q \in (p + 1)..Len(log) :
                /\ log[q].op \in Cleanup
                /\ log[q].loc \in {0, log[p].loc}
    /\ (\E p \in DOMAIN log : log[p].exc # "none") =>
        /\ err # NoError
        /\ pc \in {"cursor_close", "finally", "done"}
        /\ \A k \in (i + 1)..Len(locations) : \A p \in DOMAIN log : log[p].loc # k
        /\ pc = "done" => conn # "open"

\* C5 witness: the fetch of the first of several locations raised, the run
\* has ended and the connection is closed
C5_Witness ==
    /\ pc = "done"
    /\ ~dry_run
    /\ Len(locations) >= 2
    /\ Failed("get_weather", 1)
    /\ err.loc = 1
    /\ conn = "closed"

\* C6: when the geocoder returned an empty candidate list, get_bbox raised
\* ResolutionError, and no grid, fetch, serialize or load call was made for
\* that location and no file exists.
C6_EmptyCandidatesResolutionError ==
    (resp.received /\ resp.json = <<>>) =>
        /\ \E p \in DOMAIN log : log[p] = Event("get_bbox", i, "ResolutionError")
        /\ \A p \in DOMAIN log :
            log[p].loc = i => log[p].op \in {"get_bbox"} \cup Cleanup
        /\ DOMAIN files = {}

\* C7: a batch holding a response whose variable arrays do not all have the
\* length of its timestamp sequence makes parse_responses raise; nothing is
\* serialized, staged or copied for that location and no file exists.
C7_MisalignedBatchFails ==
    (pc # "parse_responses" /\ \E k \in DOMAIN responses : Misaligned(responses[k])) =>
        /\ Failed("parse_responses", i)
        /\ err # NoError
        /\ pc \in {"finally", "done"}
        /\ \A p \in DOMAIN log :
            log[p].loc = i =>
                log[p].op \notin {"report_frames", "responses_to_json", "os_remove"}
                                 \cup LoadOps
        /\ DOMAIN files = {}

\* C7 witness: the first point was well formed, the second was not, and the
\* run has ended
C7_Witness ==
    /\ pc = "done"
    /\ Len(responses) >= 2
    /\ ~Misaligned(responses[1])
    /\ Misaligned(responses[Len(responses)])
    /\ Failed("parse_responses", i)

HourFloor(t) == (t \div 3600) * 3600

\* a block with rows whose arrays align with its timestamps
WellFormed(r) == ~Misaligned(r) /\ r.TimeEnd > r.Time

\* lexicographic order of rendered timestamps
StrBefore(a, b) ==
    \/ a[1] < b[1]
    \/ a[1] = b[1] /\ a[2] < b[2]
    \/ a[1] = b[1] /\ a[2] = b[2] /\ a[3] < b[3]

\* C8: when every point's block is well formed, history asked for the 24
\* hours ending now and forecast for the 1 hour from now, the file holds
\* 24 x n (1 x n) lines, in point order and then ascending timestamp, each
\* tagged with the mode given to ingest.
C8_LineCount ==
    (pc \in {"cursor", "put", "copy", "cursor_close", "os_remove"}
        /\ \A k \in DOMAIN responses : WellFormed(responses[k])) =>
        LET lines == files[json_path]
            n == Len(latitudes)
            h == IF mode = "history" THEN 24 ELSE 1
            now == HourFloor(clock)
        IN /\ Len(responses) = n
           /\ \A k \in 1..n :
                IF mode = "history"
                THEN responses[k].Time = now - 24 * 3600 /\ responses[k].TimeEnd = now
                ELSE responses[k].Time = now /\ responses[k].TimeEnd = now + 3600
           /\ Len(lines) = h * n
           /\ \A l \in 1..Len(lines) :
                /\ lines[l].mode = mode
                /\ lines[l].latitude = latitudes[((l - 1) \div h) + 1]
                /\ lines[l].longitude = longitudes[((l - 1) \div h) + 1]
                /\ ((l - 1) % h # 0) =>
                        StrBefore(lines[l - 1].timestamp, lines[l].timestamp)

\* C8 witness: a history file of several points, 24 lines each
C8_Witness ==
    /\ pc = "os_remove"
    /\ mode = "history"
    /\ Len(latitudes) >= 2
    /\ json_path \in DOMAIN files
    /\ Len(files[json_path]) = 24 * Len(latitudes)

StageRank(op) ==
    CASE op = "get_bbox" -> 1
      [] op = "get_grid_points" -> 2
      [] op = "get_weather" -> 3
      [] op = "parse_responses" -> 4
      [] op = "report_frames" -> 5
      [] op = "responses_to_json" -> 6
      [] op = "cursor" -> 7
      [] op = "PUT" -> 8
      [] op = "COPY" -> 9
      [] op = "cursor_close" -> 10
      [] op = "os_remove" -> 11
      [] OTHER -> 0

\* the calls that must have returned before op is called for location k
Before(op) ==
    CASE op = "get_bbox" -> {}
      [] op = "get_grid_points" -> {"get_bbox"}
      [] op = "get_weather" -> {"get_grid_points"}
      [] op = "parse_responses" -> {"get_weather"}
      [] op = "report_frames" -> {"parse_responses"}
      [] op = "responses_to_json" -> {"parse_responses"}
      [] op = "cursor" -> {"responses_to_json"}
      [] op = "PUT" -> {"cursor"}
      [] op = "COPY" -> {"PUT"}
      [] op = "cursor_close" -> {"cursor"}
      [] op = "os_remove" ->
            IF dry_run THEN {"responses_to_json"}
            ELSE {"responses_to_json", "PUT", "COPY", "cursor_close"}
      [] OTHER -> {}

\* C9: calls are made location by location in list order and, within one
\* location, in the fixed stage order with none skipped; a location starts
\* only after the file of the one before it was removed; at most one file
\* written by the run exists at any time.
C9_SequentialStages ==
    /\ \A p, q \in DOMAIN log :
        (p < q /\ log[p].loc >= 1 /\ log[q].loc >= 1) =>
            /\ log[p].loc <= log[q].loc
            /\ log[p].loc = log[q].loc => StageRank(log[p].op) < StageRank(log[q].op)
    /\ \A q \in DOMAIN log :
        log[q].loc >= 1 =>
            /\ \A op \in Before(log[q].op) :
                \E p \in 1..(q - 1) : log[p] = Event(op, log[q].loc, "none")
            /\ log[q].loc >= 2 =>
                \E p \in 1..(q - 1) : log[p] = Event("os_remove", log[q].loc - 1, "none")
    /\ Cardinality(DOMAIN files) <= 1

\* C9 witness: two or more locations went through every stage, load included
C9_Witness ==
    /\ pc = "done"
    /\ ~dry_run
    /\ err = NoError
    /\ Len(locations) >= 2
    /\ Succeeded("COPY", 1)
    /\ Succeeded("os_remove", 2)

EmptyGridStep ==
    /\ (pc = "get_grid_points" /\ GridCells(GridParams(bbox)) = <<>>) =>
            /\ err' # NoError => err'.type = "OpenMeteoRequestsError"
            /\ err' = NoError => (latitudes' = <<>> /\ longitudes' = <<>>)
    /\ (pc = "get_weather" /\ latitudes = <<>> /\ err' = NoError) => responses' = <<>>
    /\ (pc = "parse_responses" /\ latitudes = <<>>) =>
            (err' = NoError /\ pc' = "report_frames" /\ dataframes' = <<>>)
    /\ (pc = "report_frames" /\ latitudes = <<>>) =>
            (err' = NoError /\ pc' = "responses_to_json")
    /\ (pc = "responses_to_json" /\ latitudes = <<>> /\ err' = NoError) =>
            (json_path' \in DOMAIN files' /\ files'[json_path'] = <<>>)
    /\ (pc = "os_remove" /\ latitudes = <<>> /\ err' = NoError) =>
            /\ DOMAIN files' = {}
            /\ i' = i + 1
            /\ pc' = IF i + 1 <= Len(locations) THEN "get_bbox" ELSE "finally"

\* C10: a box holding no grid cell gives two empty sequences and raises
\* nothing of its own: normalization and the report succeed with no frame,
\* the file is written with zero lines and removed, and the loop goes on to
\* the next location.
C10_EmptyGridNotAnError == [][EmptyGridStep]_vars

\* C10 witness: the first location resolved to zero grid points and the
\* second location has begun
C10_Witness ==
    /\ i = 2
    /\ pc = "get_grid_points"
    /\ err = NoError
    /\ stdout[1][1] = "location"
    /\ stdout[1][5] = 0
    /\ Succeeded("os_remove", 1)

====
